---- MODULE Spec2Model ----
(***************************************************************************)
(* Model of the ResQ AI orchestration core:                                *)
(*   backend/src/graph/orchestrator.py  Orchestrator                       *)
(*   backend/src/graph/workflow.py      AgentWorkflow (LangGraph graph)    *)
(*   backend/src/graph/state.py         IncidentState, create_initial_state*)
(*                                                                         *)
(* process_incident is a coroutine: between two awaits its code runs       *)
(* atomically on the event loop, so every action below is the code from    *)
(* one await (a similarity search, the completion call, one agent call)    *)
(* to the next.  The graph runtime is taken to hand each routing function  *)
(* the record its node returned and to keep what it writes there           *)
(* (workflow.py line 342), as the source is written.                       *)
(***************************************************************************)
EXTENDS Integers, Sequences, FiniteSets, TLC

VARIABLES
    mode,   \* Orchestrator.mode: "test" or "prod", fixed at construction
    cache,  \* Orchestrator._processed_incidents: identifier -> result
    pc,     \* per call: the await the coroutine is suspended at
    req,    \* per call: the arguments of process_incident
    ctx,    \* per call: the context map of _retrieve_context
    st,     \* per call: the IncidentState threaded through the graph
    ret,    \* per call: the value process_incident returned
    ext,    \* per call: external requests issued (embedding, search, completion, agent)
    obs,    \* per call: what happened during the call (history variable)
    nreq,   \* number of process_incident calls begun so far
    cleared \* argument of the latest clear_cache call (history variable)

vars == <<mode, cache, pc, req, ctx, st, ret, ext, obs, nreq, cleared>>

----------------------------------------------------------------------------
(* Bounds of the model *)

MaxRequests == 3          \* process_incident calls begun in one behaviour

(* Program constants *)

MaxIterations == 5        \* create_initial_state: max_iterations=5
QualityThreshold == 70    \* _route_after_reflector: quality_score >= 0.7 (hundredths)
DefaultQuality == 70      \* result.get("quality_score", 0.7) (hundredths)

Ids == {"inc-1", "inc-2"}

\* keys of the cache: an identifier is any string, the empty one included
Keys == Ids \cup {""}

None == "None"            \* Python None, and the value of a key never set
Absent == "<absent>"      \* a key missing from a dict returned by a collaborator

\* dict.get(key, default) handing on a missing value
GetWithoutDefault(v, default) == v

\* dict.get(key, default) on a value that may be missing
Get(v, default) == IF v = Absent THEN default ELSE v

\* dict.get(key) without default
GetOrNone(v) == IF v = Absent THEN None ELSE v

\* Python truthiness of a string-valued field (None and "" are falsy)
Truthy(v) == v \notin {None, Absent, ""}

\* a quality score never written: state.get("quality_score", d) yields d
NoScore == 0 - 1

Count(seq, x) == Cardinality({i \in 1..Len(seq) : seq[i] = x})

----------------------------------------------------------------------------
(* Results *)

NoResult == [status |-> "none"]

EmptyContext == [docs |-> <<>>, sops |-> <<>>, landmarks |-> <<>>, images |-> <<>>]

\* the fallback without its error field
ErrorResponseWithoutError(incident_id, elapsed) ==
    [incident_id |-> incident_id,
     status |-> "error",
     priority |-> "P2",
     incident_type |-> "Unknown_RequiresReview",
     recommended_assets |-> <<[type |-> "ALS_Ambulance", quantity |-> 1]>>,
     critical_instructions |-> "Escalate to human dispatcher immediately.",
     requires_human_approval |-> TRUE,
     processing_time_ms |-> elapsed]

\* _error_response
ErrorResponse(incident_id, elapsed) ==
    [incident_id |-> incident_id,
     status |-> "error",
     error |-> "exception",
     priority |-> "P2",
     incident_type |-> "Unknown_RequiresReview",
     recommended_assets |-> <<[type |-> "ALS_Ambulance", quantity |-> 1]>>,
     critical_instructions |-> "Escalate to human dispatcher immediately.",
     requires_human_approval |-> TRUE,
     processing_time_ms |-> elapsed]

\* final_recommendation before the checkpoint has written it (None)
NoFinal == [written |-> FALSE]

\* create_initial_state, then the four retrieved lists (_process_prod_mode)
InitialState(incident_id, context) ==
    [incident_id |-> incident_id,
     retrieved_docs |-> context.docs,
     retrieved_sops |-> context.sops,
     retrieved_landmarks |-> context.landmarks,
     retrieved_images |-> context.images,
     agent_history |-> <<>>,
     iteration_count |-> 0,
     max_iterations |-> MaxIterations,
     intent |-> None,
     priority |-> "P3",
     incident_type |-> "Unknown",
     recommended_assets |-> <<>>,
     resolved_location |-> None,
     address |-> None,
     recommended_sops |-> <<>>,
     critical_instructions |-> Absent,
     visual_analysis |-> None,
     quality_score |-> NoScore,
     gaps_detected |-> <<>>,
     grounded_claims |-> <<>>,
     ambiguities |-> <<>>,
     next_agent |-> None,
     requires_human_approval |-> FALSE,
     requires_more_info |-> FALSE,
     loop_back_to |-> None,
     final_recommendation |-> NoFinal,
     processing_complete |-> FALSE,
     total_tokens_consumed |-> 0]

\* the record of a call that is not running the graph
NoState == InitialState(None, EmptyContext)

\* the arguments of a call; seq numbers the calls in the order they began
NoRequest == [incident_id |-> None, force_reprocess |-> FALSE,
              has_location |-> FALSE, has_images |-> FALSE, seq |-> 0]

\* no clear_cache call has been made
NoCall == "<no call>"

NoExt == [embed |-> 0, search |-> 0, llm |-> 0, agent |-> 0]

NoObs == [cached_at_start |-> FALSE,  \* the identifier had a cache entry when the call began
          hit |-> FALSE,              \* the call returned the cached entry
          failed |-> FALSE,           \* an exception reached a handler of the orchestrator
          stored |-> FALSE,           \* the call wrote the cache
          approval_set |-> FALSE,     \* some node wrote requires_human_approval = true
          hitl_runs |-> 0,            \* executions of the checkpoint node
          last_score |-> 0 - 1,       \* quality_score of the latest reflector result
          embed_failed |-> FALSE,     \* embed_text raised
          search_failed |-> 0,        \* hybrid_search calls that raised
          searched |-> {},            \* collections hybrid_search was called on
          prompt |-> <<>>]            \* context rendered into the completion request

Upd(f, c, v) == [f EXCEPT ![c] = v]

\* the metadata without the mode
WithoutMode(result, elapsed, m) ==
    [k \in DOMAIN result \cup {"processing_time_ms"} |->
        IF k = "processing_time_ms" THEN elapsed ELSE result[k]]

\* result["processing_time_ms"] = ...; result["mode"] = self.mode
WithMetadata(result, elapsed, m) ==
    [k \in DOMAIN result \cup {"processing_time_ms", "mode"} |->
        IF k = "processing_time_ms" THEN elapsed
        ELSE IF k = "mode" THEN m
        ELSE result[k]]

\* the fast-path result asking for approval for P1 only
TestResultApprovalP1Only(incident_id, out) ==
    [incident_id |-> incident_id, status |-> "test_complete",
     priority |-> Get(out.priority, "P3"),
     requires_human_approval |-> (out.priority = "P1")]

\* the dict _process_test_mode builds from the parsed completion
TestResult(incident_id, out) ==
    [incident_id |-> incident_id,
     status |-> "test_complete",
     priority |-> Get(out.priority, "P3"),
     incident_type |-> Get(out.incident_type, "Unknown"),
     recommended_assets |-> out.recommended_assets,
     critical_instructions |-> Get(out.critical_instructions, ""),
     reasoning |-> Get(out.reasoning, ""),
     confidence |-> out.confidence,
     requires_human_approval |-> (out.priority \in {"P1", "P2"}),
     tokens_consumed |-> out.total_tokens,
     model_used |-> out.model]

\* the dict _process_prod_mode builds from the final state of the graph
ProdResult(incident_id, s) ==
    [incident_id |-> incident_id,
     status |-> "workflow_complete",
     priority |-> s.priority,
     incident_type |-> s.incident_type,
     recommended_assets |-> s.recommended_assets,
     location |-> s.resolved_location,
     address |-> s.address,
     critical_instructions |-> Get(s.critical_instructions, ""),
     recommended_sops |-> s.recommended_sops,
     quality_score |-> IF s.quality_score = NoScore THEN DefaultQuality ELSE s.quality_score,
     gaps_detected |-> s.gaps_detected,
     grounded_claims_count |-> Len(s.grounded_claims),
     agent_history |-> s.agent_history,
     requires_human_approval |-> s.requires_human_approval,
     tokens_consumed |-> s.total_tokens_consumed,
     final_recommendation |-> s.final_recommendation]

----------------------------------------------------------------------------
(* Inputs.  A profile names the sets the inputs of the actions are drawn   *)
(* from: arguments of process_incident and outcomes of the collaborators.  *)

\* outcome of one hybrid_search: the hits, or an exception
SearchOutcomes == {[ok |-> TRUE, hits |-> <<"hit">>],
                   [ok |-> TRUE, hits |-> <<>>],
                   [ok |-> FALSE, hits |-> <<>>]}

\* outcome of llm.generate followed by json.loads: the parsed dict, or an exception
Completion(priority) ==
    [ok |-> TRUE, priority |-> priority, incident_type |-> "Medical_Cardiac",
     recommended_assets |-> <<[type |-> "BLS_Ambulance", quantity |-> 1]>>,
     critical_instructions |-> "Start CPR", reasoning |-> "r", confidence |-> 90,
     total_tokens |-> 1, model |-> "m"]

FailedCompletion == [Completion(Absent) EXCEPT !.ok = FALSE]

SearchPcs == {"search_docs", "search_sops", "search_landmarks", "search_images"}

CollectionOf(p) ==
    CASE p = "search_docs" -> "docs"
      [] p = "search_sops" -> "sops"
      [] p = "search_landmarks" -> "landmarks"
      [] p = "search_images" -> "images"

\* where process_incident goes once _retrieve_context has returned
ModePc == IF mode = "test" THEN "llm" ELSE "supervisor"

\* _retrieve_context searching the landmarks whether or not a location was given
AfterSearchAlwaysLandmarks(p, r) ==
    CASE p = "search_docs" -> "search_sops"
      [] p = "search_sops" -> "search_landmarks"
      [] p = "search_landmarks" -> IF r.has_images THEN "search_images" ELSE ModePc
      [] p = "search_images" -> ModePc

\* the await that follows the search the call is at (_retrieve_context)
AfterSearch(p, r) ==
    CASE p = "search_docs" -> "search_sops"
      [] p = "search_sops" ->
            IF ~r.has_location THEN "search_landmarks"
            ELSE IF r.has_images THEN "search_images" ELSE ModePc
      [] p = "search_landmarks" -> IF r.has_images THEN "search_images" ELSE ModePc
      [] p = "search_images" -> ModePc

\* process_incident handing the selected mode an empty context
ModeInputEmpty(context) == EmptyContext

\* retrieval_context as process_incident passes it to the selected mode
ModeInput(context) == context

\* one incident record shared by every call in progress
EnterModeShared(c, r, context) ==
    [d \in DOMAIN st |->
        IF mode = "prod" THEN InitialState(r.incident_id, ModeInput(context))
        ELSE NoState]

\* the initial record _process_prod_mode hands to the graph
EnterMode(c, r, context) ==
    IF mode = "prod" THEN Upd(st, c, InitialState(r.incident_id, ModeInput(context)))
    ELSE Upd(st, c, NoState)

\* seq[:3]
FirstThree(seq) == SubSeq(seq, 1, IF Len(seq) < 3 THEN Len(seq) ELSE 3)

\* _format_context_for_prompt: the parts of the rendered text, the first three
\* protocols and then the first three similar incidents, or a fixed sentence
\* when there is neither
FormatContextForPrompt(context) ==
    LET sops == IF context.sops # <<>>
                THEN <<[head |-> "RELEVANT SOPs", items |-> FirstThree(context.sops)]>>
                ELSE <<>>
        docs == IF context.docs # <<>>
                THEN <<[head |-> "SIMILAR INCIDENTS", items |-> FirstThree(context.docs)]>>
                ELSE <<>>
    IN  IF sops \o docs # <<>> THEN sops \o docs
        ELSE <<[head |-> "No relevant context found.", items |-> <<>>]>>

\* embed_text raised and nothing caught it before process_incident returned
FirstAwaitGivesUp(emb) == IF emb THEN "search_docs" ELSE "returned"

\* the await that follows embed_text: the first search, or, when embed_text
\* raised, the selected mode (lines 256-259 return the context as it is)
FirstAwait(emb) == IF emb THEN "search_docs" ELSE ModePc

\* a failed search emptying the whole context
SearchResultClearsAll(context, coll, out) ==
    IF out.ok THEN [context EXCEPT ![coll] = out.hits] ELSE EmptyContext

\* context[coll] = await hybrid_search(...) inside its own try/except
SearchResult(context, coll, out) ==
    IF out.ok THEN [context EXCEPT ![coll] = out.hits] ELSE context

----------------------------------------------------------------------------
(* Orchestrator.process_incident *)

\* line 144: not force_reprocess and incident_id in self._processed_incidents
CacheHitIgnoresFlag(force, id) == cache[id] # NoResult

CacheNeverHit(force, id) == FALSE

CacheHit(force, id) == ~force /\ cache[id] # NoResult

\* the call up to its first await: idempotency check, embed_text
Begin(c, P) ==
    /\ pc[c] \in {"idle", "returned"}
    /\ nreq < P.max_requests
    /\ nreq' = nreq + 1
    /\ \E id \in P.ids, force \in P.force, loc \in P.has_location,
          img \in P.has_images, emb \in P.embed_ok :
        LET r == [incident_id |-> id, force_reprocess |-> force,
                  has_location |-> loc, has_images |-> img, seq |-> nreq + 1]
            cached == cache[id] # NoResult
        IN  /\ req' = Upd(req, c, r)
            /\ ctx' = Upd(ctx, c, EmptyContext)
            /\ IF CacheHit(force, id)
               THEN /\ ret' = Upd(ret, c, cache[id])
                    /\ pc' = Upd(pc, c, "returned")
                    /\ st' = Upd(st, c, NoState)
                    /\ ext' = Upd(ext, c, NoExt)
                    /\ obs' = Upd(obs, c, [NoObs EXCEPT !.cached_at_start = TRUE,
                                                        !.hit = TRUE])
               ELSE /\ ret' = Upd(ret, c, NoResult)
                    /\ ext' = Upd(ext, c, [NoExt EXCEPT !.embed = 1])
                    /\ obs' = Upd(obs, c, [NoObs EXCEPT !.cached_at_start = cached,
                                                        !.embed_failed = ~emb])
                    /\ pc' = Upd(pc, c, FirstAwait(emb))
                    /\ st' = IF emb THEN Upd(st, c, NoState)
                             ELSE EnterMode(c, r, EmptyContext)
    /\ UNCHANGED <<mode, cleared, cache>>

\* one hybrid_search returns or raises; its own try/except keeps the list empty
SearchStep(c, P) ==
    /\ pc[c] \in SearchPcs
    /\ \E out \in P.search :
        LET coll == CollectionOf(pc[c])
            context == SearchResult(ctx[c], coll, out)
            next == AfterSearch(pc[c], req[c])
        IN  /\ ctx' = Upd(ctx, c, context)
            /\ ext' = Upd(ext, c, [ext[c] EXCEPT !.search = @ + 1])
            /\ obs' = Upd(obs, c, [obs[c] EXCEPT
                          !.search_failed = IF out.ok THEN @ ELSE @ + 1,
                          !.searched = @ \cup {coll}])
            /\ pc' = Upd(pc, c, next)
            /\ st' = IF next \in SearchPcs THEN st ELSE EnterMode(c, req[c], context)
    /\ UNCHANGED <<mode, cleared, cache, req, ret, nreq>>

\* line 183: self._processed_incidents[incident_id] = result
Store(id, result) == [cache EXCEPT ![id] = result]

\* _process_test_mode from the completion's return to the return of process_incident
LlmReturn(c, P) ==
    /\ pc[c] = "llm"
    /\ \E out \in P.completions, elapsed \in P.elapsed :
        LET id == req[c].incident_id
            result == IF out.ok THEN TestResult(id, out) ELSE ErrorResponse(id, 0)
            final == WithMetadata(result, elapsed, mode)
        IN  /\ cache' = Store(id, final)
            /\ ret' = Upd(ret, c, final)
            /\ obs' = Upd(obs, c, [obs[c] EXCEPT
                          !.failed = ~out.ok, !.stored = TRUE,
                          !.prompt = FormatContextForPrompt(ModeInput(ctx[c]))])
    /\ ext' = Upd(ext, c, [ext[c] EXCEPT !.llm = @ + 1])
    /\ pc' = Upd(pc, c, "returned")
    /\ UNCHANGED <<mode, cleared, req, ctx, st, nreq>>

\* clear_cache: pop(incident_id, None) when the identifier is truthy, clear()
\* otherwise
AfterClear(entries, incident_id) ==
    IF Truthy(incident_id) THEN [entries EXCEPT ![incident_id] = NoResult]
    ELSE [k \in DOMAIN entries |-> NoResult]

\* Orchestrator.clear_cache, a synchronous method called between the steps of
\* the calls in progress
ClearCache(P) ==
    /\ \E incident_id \in P.clear :
          /\ cache' = AfterClear(cache, incident_id)
          /\ cleared' = incident_id
    /\ UNCHANGED <<mode, pc, req, ctx, st, ret, ext, obs, nreq>>

----------------------------------------------------------------------------
(* AgentWorkflow: routing functions *)

\* _route_after_supervisor ignoring requires_human_approval
RouteAfterSupervisorByIntent(s) ==
    IF s.intent = "unclear" THEN "hitl"
    ELSE IF s.intent = "location_unclear" THEN "geo"
    ELSE IF s.intent = "visual_needed" THEN "vision"
    ELSE "triage"

\* _route_after_supervisor
RouteAfterSupervisor(s) ==
    IF s.intent = "unclear" \/ s.requires_human_approval THEN "hitl"
    ELSE IF s.intent = "location_unclear" THEN "geo"
    ELSE IF s.intent = "visual_needed" THEN "vision"
    ELSE "triage"

\* _route_after_geo handing a resolved location to vision
RouteAfterGeoToVision(s) == IF s.requires_more_info THEN "hitl" ELSE "vision"

\* _route_after_geo
RouteAfterGeo(s) == IF s.requires_more_info THEN "hitl" ELSE "triage"

\* _route_after_vision going to triage whatever the vision agent asked for
RouteAfterVisionToTriage(s) == "triage"

\* _route_after_vision
RouteAfterVision(s) == IF s.requires_more_info THEN "hitl" ELSE "triage"

\* the edge out of triage leading past protocol
RouteAfterTriageSkipsProtocol(s) == "reflector"

\* _route_after_triage
RouteAfterTriage(s) == "protocol"

\* _route_after_protocol
RouteAfterProtocol(s) == "reflector"

LoopTargets == {"supervisor", "triage", "geo"}

\* _route_after_reflector leaving the graph, instead of going to the checkpoint,
\* when the iteration ceiling is reached
RouteAfterReflectorEnds(s) ==
    IF s.iteration_count >= s.max_iterations THEN [next |-> "end", state |-> s]
    ELSE IF s.quality_score >= QualityThreshold THEN [next |-> "hitl", state |-> s]
    ELSE IF Truthy(s.loop_back_to) /\ s.loop_back_to \in {"supervisor", "triage", "geo"}
         THEN [next |-> s.loop_back_to,
               state |-> [s EXCEPT !.iteration_count = s.iteration_count + 1]]
    ELSE [next |-> "hitl", state |-> s]

\* _route_after_reflector stopping only above the ceiling
RouteAfterReflectorAbove(s) ==
    IF s.iteration_count > s.max_iterations THEN [next |-> "hitl", state |-> s]
    ELSE IF s.quality_score >= QualityThreshold THEN [next |-> "hitl", state |-> s]
    ELSE IF Truthy(s.loop_back_to) /\ s.loop_back_to \in {"supervisor", "triage", "geo"}
         THEN [next |-> s.loop_back_to,
               state |-> [s EXCEPT !.iteration_count = s.iteration_count + 1]]
    ELSE [next |-> "hitl", state |-> s]

\* _route_after_reflector clearing the location on a loop-back
RouteAfterReflectorResets(s) ==
    IF s.iteration_count >= s.max_iterations THEN [next |-> "hitl", state |-> s]
    ELSE IF s.quality_score >= QualityThreshold THEN [next |-> "hitl", state |-> s]
    ELSE IF Truthy(s.loop_back_to) /\ s.loop_back_to \in {"supervisor", "triage", "geo"}
         THEN [next |-> s.loop_back_to,
               state |-> [s EXCEPT !.iteration_count = s.iteration_count + 1,
                                   !.resolved_location = None, !.address = None]]
    ELSE [next |-> "hitl", state |-> s]

\* _route_after_reflector looping back without counting the loop-back
RouteAfterReflectorNoCount(s) ==
    IF s.iteration_count >= s.max_iterations THEN [next |-> "hitl", state |-> s]
    ELSE IF s.quality_score >= QualityThreshold THEN [next |-> "hitl", state |-> s]
    ELSE IF Truthy(s.loop_back_to) /\ s.loop_back_to \in {"supervisor", "triage", "geo"}
         THEN [next |-> s.loop_back_to, state |-> s]
    ELSE [next |-> "hitl", state |-> s]

\* _route_after_reflector looping back to whatever node is recorded
RouteAfterReflectorAnyTarget(s) ==
    IF s.iteration_count >= s.max_iterations THEN [next |-> "hitl", state |-> s]
    ELSE IF s.quality_score >= QualityThreshold THEN [next |-> "hitl", state |-> s]
    ELSE IF Truthy(s.loop_back_to)
         THEN [next |-> s.loop_back_to,
               state |-> [s EXCEPT !.iteration_count = s.iteration_count + 1]]
    ELSE [next |-> "hitl", state |-> s]

\* _route_after_reflector: the node chosen, and the record with the counter it writes
RouteAfterReflector(s) ==
    LET quality_score == IF s.quality_score = NoScore THEN DefaultQuality
                         ELSE s.quality_score
    IN  IF s.iteration_count >= s.max_iterations THEN [next |-> "hitl", state |-> s]
        ELSE IF quality_score >= QualityThreshold THEN [next |-> "hitl", state |-> s]
        ELSE IF Truthy(s.loop_back_to) /\ s.loop_back_to \in LoopTargets
             THEN [next |-> s.loop_back_to,
                   state |-> [s EXCEPT !.iteration_count = s.iteration_count + 1]]
        ELSE [next |-> "hitl", state |-> s]

\* build_graph: the nodes, and the edges as pairs; "end" is END
GraphNodes == {"supervisor", "triage", "geo", "protocol", "vision", "reflector", "hitl"}

Edges ==
    {<<"supervisor", n>> : n \in {"triage", "geo", "vision", "hitl"}}
    \cup {<<"geo", n>> : n \in {"triage", "hitl"}}
    \cup {<<"vision", n>> : n \in {"triage", "hitl"}}
    \cup {<<"triage", "protocol">>, <<"protocol", "reflector">>}
    \cup {<<"reflector", n>> : n \in {"supervisor", "triage", "geo", "hitl"}}
    \cup {<<"hitl", "end">>}

----------------------------------------------------------------------------
(* AgentWorkflow: nodes.  Each action is one agent call returning, the     *)
(* node's writes to the record, and the routing function of its edge.      *)

AgentNodes == {"supervisor", "triage", "geo", "vision", "protocol", "reflector"}

\* the claims of an agent output replacing those recorded
ReplaceClaims(existing, new) == IF new # <<>> THEN new ELSE existing

\* state["grounded_claims"] = existing + [c.model_dump() for c in ...]
AddClaims(existing, new) == existing \o new

\* bookkeeping of a call whose agent call returned `out`
AgentReturned(c, out, sets_approval) ==
    /\ ext' = Upd(ext, c, [ext[c] EXCEPT !.agent = @ + 1])
    /\ obs' = Upd(obs, c, [obs[c] EXCEPT
                  !.approval_set = @ \/ (sets_approval /\ out.requires_human_approval),
                  !.last_score = IF "quality_score" \in DOMAIN out
                                 THEN out.quality_score ELSE @])
    /\ UNCHANGED <<mode, cleared, cache, req, ctx, ret, nreq>>

\* _run_supervisor
RunSupervisor(c, P) ==
    /\ pc[c] = "supervisor"
    /\ \E out \in P.supervisor :
        LET s == [st[c] EXCEPT
                    !.intent = Get(out.intent, "unclear"),
                    !.next_agent = out.next_agent,
                    !.agent_history = Append(@, "supervisor"),
                    !.requires_human_approval = out.requires_human_approval,
                    !.requires_more_info = out.requires_more_info,
                    !.total_tokens_consumed = @ + out.tokens_consumed,
                    !.ambiguities = IF out.ambiguities # <<>> THEN out.ambiguities ELSE @]
        IN  /\ st' = Upd(st, c, s)
            /\ pc' = Upd(pc, c, RouteAfterSupervisor(s))
            /\ AgentReturned(c, out, TRUE)

\* _run_triage
RunTriage(c, P) ==
    /\ pc[c] = "triage"
    /\ \E out \in P.triage :
        LET s == [st[c] EXCEPT
                    !.priority = Get(out.priority, "P3"),
                    !.incident_type = Get(out.incident_type, "Unknown"),
                    !.recommended_assets = out.recommended_assets,
                    !.next_agent = out.next_agent,
                    !.agent_history = Append(@, "triage"),
                    !.requires_human_approval = out.requires_human_approval,
                    !.total_tokens_consumed = @ + out.tokens_consumed,
                    !.grounded_claims = AddClaims(@, out.grounded_claims)]
        IN  /\ st' = Upd(st, c, s)
            /\ pc' = Upd(pc, c, RouteAfterTriage(s))
            /\ AgentReturned(c, out, TRUE)

\* _run_geo
RunGeo(c, P) ==
    /\ pc[c] = "geo"
    /\ \E out \in P.geo :
        LET s == [st[c] EXCEPT
                    !.resolved_location = GetOrNone(out.resolved_location),
                    !.address = GetOrNone(out.address),
                    !.next_agent = out.next_agent,
                    !.agent_history = Append(@, "geo"),
                    !.requires_more_info = out.requires_more_info,
                    !.total_tokens_consumed = @ + out.tokens_consumed,
                    !.ambiguities = @ \o out.ambiguities]
        IN  /\ st' = Upd(st, c, s)
            /\ pc' = Upd(pc, c, RouteAfterGeo(s))
            /\ AgentReturned(c, out, FALSE)

\* _run_protocol
RunProtocol(c, P) ==
    /\ pc[c] = "protocol"
    /\ \E out \in P.protocol :
        LET s == [st[c] EXCEPT
                    !.recommended_sops = out.recommended_sops,
                    !.critical_instructions = Get(out.critical_instructions, ""),
                    !.next_agent = out.next_agent,
                    !.agent_history = Append(@, "protocol"),
                    !.total_tokens_consumed = @ + out.tokens_consumed,
                    !.grounded_claims = AddClaims(@, out.grounded_claims)]
        IN  /\ st' = Upd(st, c, s)
            /\ pc' = Upd(pc, c, RouteAfterProtocol(s))
            /\ AgentReturned(c, out, FALSE)

\* _run_vision
RunVision(c, P) ==
    /\ pc[c] = "vision"
    /\ \E out \in P.vision :
        LET s == [st[c] EXCEPT
                    !.visual_analysis = GetOrNone(out.image_analysis),
                    !.next_agent = out.next_agent,
                    !.agent_history = Append(@, "vision"),
                    !.requires_more_info = out.requires_more_info,
                    !.total_tokens_consumed = @ + out.tokens_consumed]
        IN  /\ st' = Upd(st, c, s)
            /\ pc' = Upd(pc, c, RouteAfterVision(s))
            /\ AgentReturned(c, out, FALSE)

\* _run_reflector
RunReflector(c, P) ==
    /\ pc[c] = "reflector"
    /\ \E out \in P.reflector :
        LET s == [st[c] EXCEPT
                    !.quality_score = IF out.quality_score = NoScore THEN DefaultQuality
                                      ELSE out.quality_score,
                    !.gaps_detected = out.gaps_detected,
                    !.next_agent = out.next_agent,
                    !.agent_history = Append(@, "reflector"),
                    !.requires_human_approval = out.requires_human_approval,
                    !.requires_more_info = out.requires_more_info,
                    !.loop_back_to = IF out.requires_more_info THEN out.next_agent ELSE None,
                    !.total_tokens_consumed = @ + out.tokens_consumed]
            route == RouteAfterReflector(s)
        IN  /\ st' = Upd(st, c, route.state)
            /\ pc' = Upd(pc, c, route.next)
            /\ AgentReturned(c, out, TRUE)

\* the recommendation with the default quality score
FinalRecommendationDefaultQuality(s) ==
    [written |-> TRUE,
     incident_id |-> s.incident_id,
     priority |-> s.priority,
     incident_type |-> s.incident_type,
     recommended_assets |-> s.recommended_assets,
     location |-> s.resolved_location,
     address |-> s.address,
     critical_instructions |-> Get(s.critical_instructions, ""),
     recommended_sops |-> s.recommended_sops,
     quality_score |-> DefaultQuality,
     gaps_detected |-> s.gaps_detected,
     grounded_claims_count |-> Len(s.grounded_claims)]

\* the recommendation _hitl_node assembles
FinalRecommendation(s) ==
    [written |-> TRUE,
     incident_id |-> s.incident_id,
     priority |-> s.priority,
     incident_type |-> s.incident_type,
     recommended_assets |-> s.recommended_assets,
     location |-> s.resolved_location,
     address |-> s.address,
     critical_instructions |-> Get(s.critical_instructions, ""),
     recommended_sops |-> s.recommended_sops,
     quality_score |-> IF s.quality_score = NoScore THEN DefaultQuality ELSE s.quality_score,
     gaps_detected |-> s.gaps_detected,
     grounded_claims_count |-> Len(s.grounded_claims)]

\* _hitl_node emptying the retrieved evidence
HitlStateDropsEvidence(s) ==
    [s EXCEPT !.final_recommendation =
                  [written |-> TRUE, incident_id |-> s.incident_id,
                   priority |-> s.priority],
              !.processing_complete = TRUE,
              !.requires_human_approval = TRUE,
              !.retrieved_docs = <<>>, !.retrieved_sops = <<>>,
              !.retrieved_landmarks = <<>>, !.retrieved_images = <<>>]

\* _hitl_node without its write of requires_human_approval
HitlStateKeepsFlag(s) ==
    [s EXCEPT !.final_recommendation =
                  [written |-> TRUE, incident_id |-> s.incident_id,
                   priority |-> s.priority],
              !.processing_complete = TRUE]

\* what _hitl_node writes to the record
HitlState(s) ==
    [s EXCEPT !.final_recommendation = FinalRecommendation(s),
              !.processing_complete = TRUE,
              !.requires_human_approval = TRUE]

\* the checkpoint's edge leading back into the graph
AfterCheckpointReruns == "supervisor"

\* build_graph: add_edge("hitl", END)
AfterCheckpoint == "end"

\* _hitl_node, the checkpoint, and its edge
HitlNode(c) ==
    /\ pc[c] = "hitl"
    /\ st' = Upd(st, c, HitlState(st[c]))
    /\ pc' = Upd(pc, c, AfterCheckpoint)
    /\ obs' = Upd(obs, c, [obs[c] EXCEPT !.hitl_runs = @ + 1])
    /\ UNCHANGED <<mode, cleared, cache, req, ctx, ret, ext, nreq>>

\* the graph has ended: _process_prod_mode extracts the result, process_incident
\* adds the metadata, stores and returns
ProdReturn(c, P) ==
    /\ pc[c] = "end"
    /\ \E elapsed \in P.elapsed :
        LET id == req[c].incident_id
            final == WithMetadata(ProdResult(id, st[c]), elapsed, mode)
        IN  /\ cache' = Store(id, final)
            /\ ret' = Upd(ret, c, final)
    /\ obs' = Upd(obs, c, [obs[c] EXCEPT !.stored = TRUE])
    /\ pc' = Upd(pc, c, "returned")
    /\ UNCHANGED <<mode, cleared, req, ctx, st, ext, nreq>>

\* the except clause of process_incident storing the fallback it returns
AgentRaisesStores(c, P) ==
    /\ pc[c] \in AgentNodes
    /\ TRUE \in P.agent_raises
    /\ \E elapsed \in P.elapsed :
        /\ ret' = Upd(ret, c, ErrorResponse(req[c].incident_id, elapsed))
        /\ cache' = Store(req[c].incident_id, ErrorResponse(req[c].incident_id, elapsed))
    /\ ext' = Upd(ext, c, [ext[c] EXCEPT !.agent = @ + 1])
    /\ obs' = Upd(obs, c, [obs[c] EXCEPT !.failed = TRUE])
    /\ pc' = Upd(pc, c, "returned")
    /\ UNCHANGED <<mode, cleared, req, ctx, st, nreq>>

\* an agent call raises and process_incident has no except clause
AgentRaisesUncaught(c, P) ==
    /\ pc[c] \in AgentNodes
    /\ TRUE \in P.agent_raises
    /\ ext' = Upd(ext, c, [ext[c] EXCEPT !.agent = @ + 1])
    /\ obs' = Upd(obs, c, [obs[c] EXCEPT !.failed = TRUE])
    /\ pc' = Upd(pc, c, "raised")
    /\ UNCHANGED <<mode, cleared, cache, req, ctx, st, ret, nreq>>

\* an agent call raises and the graph invokes the node again
AgentRaisesRetried(c, P) ==
    /\ pc[c] \in AgentNodes
    /\ TRUE \in P.agent_raises
    /\ ext' = Upd(ext, c, [ext[c] EXCEPT !.agent = @ + 1])
    /\ obs' = Upd(obs, c, [obs[c] EXCEPT !.failed = TRUE])
    /\ UNCHANGED <<mode, cleared, cache, pc, req, ctx, st, ret, nreq>>

\* an agent call raises: the graph does not catch it, the except clause of
\* process_incident returns _error_response
AgentRaises(c, P) ==
    /\ pc[c] \in AgentNodes
    /\ TRUE \in P.agent_raises
    /\ \E elapsed \in P.elapsed :
        ret' = Upd(ret, c, ErrorResponse(req[c].incident_id, elapsed))
    /\ ext' = Upd(ext, c, [ext[c] EXCEPT !.agent = @ + 1])
    /\ obs' = Upd(obs, c, [obs[c] EXCEPT !.failed = TRUE])
    /\ pc' = Upd(pc, c, "returned")
    /\ UNCHANGED <<mode, cleared, cache, req, ctx, st, nreq>>

----------------------------------------------------------------------------
(* Agent outputs (AgentOutput of src.agents.schemas, as the nodes read it) *)

SupervisorOut(intent, approval) ==
    [intent |-> intent, next_agent |-> None,
     requires_human_approval |-> approval, requires_more_info |-> FALSE,
     tokens_consumed |-> 1, ambiguities |-> <<>>]

TriageOut(priority, approval) ==
    [priority |-> priority, incident_type |-> "Medical_Cardiac",
     recommended_assets |-> <<[type |-> "ALS_Ambulance", quantity |-> 1]>>,
     next_agent |-> "protocol", requires_human_approval |-> approval,
     tokens_consumed |-> 1, grounded_claims |-> <<>>]

GeoOut(more_info) ==
    [resolved_location |-> "loc-A", address |-> "addr-A", next_agent |-> "triage",
     requires_more_info |-> more_info, tokens_consumed |-> 1, ambiguities |-> <<>>]

VisionOut(more_info) ==
    [image_analysis |-> "fire", next_agent |-> "triage",
     requires_more_info |-> more_info, tokens_consumed |-> 1]

ProtocolOut ==
    [recommended_sops |-> <<"sop-1">>, critical_instructions |-> "Start CPR",
     next_agent |-> "reflector", tokens_consumed |-> 1, grounded_claims |-> <<>>]

ReflectorOut(quality, target, more_info, approval) ==
    [quality_score |-> quality, gaps_detected |-> <<>>, next_agent |-> target,
     requires_human_approval |-> approval, requires_more_info |-> more_info,
     tokens_consumed |-> 1]

\* overlapping calls on one orchestrator, in either mode
Narrow ==
    [modes |-> {"test", "prod"},
     slots |-> {1, 2},
     max_requests |-> MaxRequests,
     ids |-> Ids,
     force |-> BOOLEAN,
     has_location |-> {TRUE},
     has_images |-> {FALSE},
     embed_ok |-> {TRUE},
     search |-> {[ok |-> TRUE, hits |-> <<"hit">>]},
     completions |-> {Completion("P1"), Completion("P2"), Completion(Absent),
                      FailedCompletion},
     elapsed |-> {1},
     supervisor |-> {SupervisorOut("medical", FALSE), SupervisorOut("unclear", FALSE)},
     triage |-> {TriageOut("P1", FALSE), TriageOut("P4", TRUE)},
     geo |-> {GeoOut(FALSE)},
     vision |-> {VisionOut(FALSE)},
     protocol |-> {ProtocolOut},
     reflector |-> {ReflectorOut(90, None, FALSE, FALSE)},
     agent_raises |-> {TRUE},
     clear |-> {}]

\* one full-path run, every routing outcome
Wide ==
    [modes |-> {"prod"},
     slots |-> {1},
     max_requests |-> 1,
     ids |-> {"inc-1"},
     force |-> {FALSE},
     has_location |-> {TRUE},
     has_images |-> {FALSE},
     embed_ok |-> {TRUE},
     search |-> {[ok |-> TRUE, hits |-> <<"hit">>]},
     completions |-> {},
     elapsed |-> {1},
     supervisor |-> {SupervisorOut(i, a) :
                        i \in {"medical", "location_unclear", "visual_needed",
                               "unclear", Absent},
                        a \in BOOLEAN},
     triage |-> {TriageOut("P1", a) : a \in BOOLEAN},
     geo |-> {GeoOut(m) : m \in BOOLEAN},
     vision |-> {VisionOut(m) : m \in BOOLEAN},
     protocol |-> {ProtocolOut},
     reflector |-> {ReflectorOut(30, t, TRUE, FALSE) :
                        t \in {None, "supervisor", "triage", "geo", "protocol"}}
                   \cup {ReflectorOut(30, "triage", FALSE, FALSE),
                         ReflectorOut(NoScore, "triage", TRUE, FALSE),
                         ReflectorOut(90, "geo", TRUE, TRUE)},
     agent_raises |-> {TRUE},
     clear |-> {}]

\* one full-path run in which no agent call raises: every intent, every
\* loop-back target, a quality score below and above the threshold
Loop ==
    [Wide EXCEPT
        !.supervisor = {SupervisorOut(i, FALSE) :
                          i \in {"medical", "location_unclear", "visual_needed",
                                 "unclear", Absent}}
                       \cup {SupervisorOut("medical", TRUE)},
        !.triage = {TriageOut("P1", FALSE)},
        !.reflector = {ReflectorOut(30, t, TRUE, FALSE) :
                          t \in {None, "supervisor", "triage", "geo"}}
                      \cup {ReflectorOut(90, None, FALSE, FALSE)},
        !.agent_raises = {FALSE}]

\* one call in either mode, every outcome of the embedding and of each search
Retrieval ==
    [Narrow EXCEPT
        !.slots = {1},
        !.max_requests = 1,
        !.ids = {"inc-1"},
        !.force = {FALSE},
        !.has_location = BOOLEAN,
        !.has_images = BOOLEAN,
        !.embed_ok = BOOLEAN,
        !.search = SearchOutcomes,
        !.completions = {Completion("P1"), FailedCompletion},
        !.supervisor = {SupervisorOut("medical", FALSE)},
        !.triage = {TriageOut("P1", FALSE)}]

\* a full-path run whose reflector returns quality 0.3 and loop-back target
\* triage on every pass; the other collaborators vary
ScenarioB ==
    [Loop EXCEPT
        !.has_location = BOOLEAN,
        !.search = SearchOutcomes,
        !.supervisor = {SupervisorOut(i, FALSE) :
                          i \in {"medical", "location_unclear", "visual_needed"}},
        !.geo = {GeoOut(FALSE)},
        !.vision = {VisionOut(FALSE)},
        !.triage = {TriageOut(p, a) : p \in {"P1", "P3"}, a \in BOOLEAN},
        !.reflector = {ReflectorOut(30, "triage", TRUE, FALSE)}]

\* the priority a triage result carries: one of the fixed values, or no
\* priority key at all
TriagePriorities == {"P1", "P2", "P3", "P4", "P5", Absent}

\* a full-path run whose triage result carries any priority or none, and that
\* may reach the checkpoint without triage
Priorities ==
    [Loop EXCEPT
        !.triage = {TriageOut(p, FALSE) : p \in TriagePriorities},
        !.reflector = {ReflectorOut(30, "triage", TRUE, FALSE),
                       ReflectorOut(90, None, FALSE, FALSE)}]

\* fast-path calls, one at a time, for any identifier, the empty string
\* included, interleaved with clear_cache calls with any identifier or none
Clearing ==
    [Narrow EXCEPT
        !.modes = {"test"},
        !.slots = {1},
        !.ids = Keys,
        !.force = {FALSE},
        !.completions = {Completion("P1")},
        !.clear = Keys \cup {None}]

\* successive full-path calls for one identifier, forced or not, whose
\* embedding, searches and agents may raise
Forced ==
    [Narrow EXCEPT
        !.modes = {"prod"},
        !.slots = {1},
        !.ids = {"inc-1"},
        !.embed_ok = BOOLEAN,
        !.search = SearchOutcomes,
        !.supervisor = {SupervisorOut("medical", FALSE)}]

\* a full-path run whose agents return grounded claims and ambiguity flags
Lists ==
    [Loop EXCEPT
        !.supervisor = {[SupervisorOut(i, FALSE) EXCEPT !.ambiguities = a] :
                          i \in {"medical", "location_unclear"},
                          a \in {<<>>, <<"amb-s">>}},
        !.geo = {[GeoOut(FALSE) EXCEPT !.ambiguities = <<"amb-g">>]},
        !.triage = {[TriageOut("P1", FALSE) EXCEPT !.grounded_claims = <<"claim-t">>]},
        !.protocol = {[ProtocolOut EXCEPT !.grounded_claims = g] :
                          g \in {<<>>, <<"claim-p">>}},
        !.reflector = {ReflectorOut(30, t, TRUE, FALSE) : t \in {"supervisor", "triage"}}
                      \cup {ReflectorOut(90, None, FALSE, FALSE)}]

\* a full-path run whose agents return something else on every pass
Reentry ==
    [Loop EXCEPT
        !.has_location = {FALSE},
        !.has_images = {TRUE},
        !.supervisor = {SupervisorOut(i, FALSE) :
                          i \in {"medical", "location_unclear", "visual_needed"}},
        !.geo = {[GeoOut(FALSE) EXCEPT !.resolved_location = l.loc, !.address = l.addr] :
                    l \in {[loc |-> "loc-A", addr |-> "addr-A"],
                            [loc |-> "loc-B", addr |-> "addr-B"]}},
        !.vision = {VisionOut(FALSE)},
        !.triage = {TriageOut("P1", FALSE),
                    [TriageOut("P2", FALSE) EXCEPT
                        !.recommended_assets = <<[type |-> "Fire_Engine", quantity |-> 2]>>]},
        !.reflector = {ReflectorOut(30, t, TRUE, FALSE) :
                          t \in {"supervisor", "triage", "geo"}}
                      \cup {ReflectorOut(50, "triage", TRUE, FALSE),
                            ReflectorOut(90, None, FALSE, FALSE),
                            ReflectorOut(NoScore, None, FALSE, FALSE)}]

----------------------------------------------------------------------------
(* Specifications *)

InitWith(P) ==
    /\ mode \in P.modes
    /\ cache = [i \in Keys |-> NoResult]
    /\ pc = [c \in {1, 2} |-> "idle"]
    /\ req = [c \in {1, 2} |-> NoRequest]
    /\ ctx = [c \in {1, 2} |-> EmptyContext]
    /\ st = [c \in {1, 2} |-> NoState]
    /\ ret = [c \in {1, 2} |-> NoResult]
    /\ ext = [c \in {1, 2} |-> NoExt]
    /\ obs = [c \in {1, 2} |-> NoObs]
    /\ nreq = 0
    /\ cleared = NoCall

Init == InitWith(Narrow)

Next ==
    \E c \in Narrow.slots :
        \/ Begin(c, Narrow)
        \/ SearchStep(c, Narrow)
        \/ LlmReturn(c, Narrow)
        \/ RunSupervisor(c, Narrow)
        \/ RunTriage(c, Narrow)
        \/ RunProtocol(c, Narrow)
        \/ RunReflector(c, Narrow)
        \/ HitlNode(c)
        \/ ProdReturn(c, Narrow)
        \/ AgentRaises(c, Narrow)

\* overlapping process_incident calls on one orchestrator
Spec == Init /\ [][Next]_vars

InitWF == InitWith(Wide)

NextWF ==
    \/ Begin(1, Wide)
    \/ SearchStep(1, Wide)
    \/ RunSupervisor(1, Wide)
    \/ RunTriage(1, Wide)
    \/ RunGeo(1, Wide)
    \/ RunVision(1, Wide)
    \/ RunProtocol(1, Wide)
    \/ RunReflector(1, Wide)
    \/ HitlNode(1)
    \/ ProdReturn(1, Wide)
    \/ AgentRaises(1, Wide)

\* one full-path call
SpecWF == InitWF /\ [][NextWF]_vars

InitLoop == InitWith(Loop)

NextLoop ==
    \/ Begin(1, Loop)
    \/ SearchStep(1, Loop)
    \/ RunSupervisor(1, Loop)
    \/ RunTriage(1, Loop)
    \/ RunGeo(1, Loop)
    \/ RunVision(1, Loop)
    \/ RunProtocol(1, Loop)
    \/ RunReflector(1, Loop)
    \/ HitlNode(1)
    \/ ProdReturn(1, Loop)

\* one full-path call in which every agent call returns; the event loop
\* resumes a call whose awaited collaborator has answered
SpecLoop == InitLoop /\ [][NextLoop]_vars /\ WF_vars(NextLoop)

InitRT == InitWith(Retrieval)

NextRT ==
    \/ Begin(1, Retrieval)
    \/ SearchStep(1, Retrieval)
    \/ LlmReturn(1, Retrieval)
    \/ RunSupervisor(1, Retrieval)
    \/ RunTriage(1, Retrieval)
    \/ RunProtocol(1, Retrieval)
    \/ RunReflector(1, Retrieval)
    \/ HitlNode(1)
    \/ ProdReturn(1, Retrieval)
    \/ AgentRaises(1, Retrieval)

\* one call whose embedding and searches may each fail
SpecRT == InitRT /\ [][NextRT]_vars

InitB == InitWith(ScenarioB)

NextB ==
    \/ Begin(1, ScenarioB)
    \/ SearchStep(1, ScenarioB)
    \/ RunSupervisor(1, ScenarioB)
    \/ RunTriage(1, ScenarioB)
    \/ RunGeo(1, ScenarioB)
    \/ RunVision(1, ScenarioB)
    \/ RunProtocol(1, ScenarioB)
    \/ RunReflector(1, ScenarioB)
    \/ HitlNode(1)
    \/ ProdReturn(1, ScenarioB)

\* one full-path call whose reflector always asks to loop back to triage
SpecB == InitB /\ [][NextB]_vars

InitPR == InitWith(Priorities)

NextPR ==
    \/ Begin(1, Priorities)
    \/ SearchStep(1, Priorities)
    \/ RunSupervisor(1, Priorities)
    \/ RunTriage(1, Priorities)
    \/ RunGeo(1, Priorities)
    \/ RunVision(1, Priorities)
    \/ RunProtocol(1, Priorities)
    \/ RunReflector(1, Priorities)
    \/ HitlNode(1)
    \/ ProdReturn(1, Priorities)

\* one full-path call over every priority a triage result may carry
SpecPR == InitPR /\ [][NextPR]_vars

InitCC == InitWith(Clearing)

NextCC ==
    \/ Begin(1, Clearing)
    \/ SearchStep(1, Clearing)
    \/ LlmReturn(1, Clearing)
    \/ ClearCache(Clearing)

\* process_incident calls and clear_cache calls on one orchestrator
SpecCC == InitCC /\ [][NextCC]_vars

InitFR == InitWith(Forced)

NextFR ==
    \/ Begin(1, Forced)
    \/ SearchStep(1, Forced)
    \/ RunSupervisor(1, Forced)
    \/ RunTriage(1, Forced)
    \/ RunProtocol(1, Forced)
    \/ RunReflector(1, Forced)
    \/ HitlNode(1)
    \/ ProdReturn(1, Forced)
    \/ AgentRaises(1, Forced)

\* successive calls for one identifier, some of them forced, some failing
SpecFR == InitFR /\ [][NextFR]_vars

InitLS == InitWith(Lists)

NextLS ==
    \/ Begin(1, Lists)
    \/ SearchStep(1, Lists)
    \/ RunSupervisor(1, Lists)
    \/ RunTriage(1, Lists)
    \/ RunGeo(1, Lists)
    \/ RunProtocol(1, Lists)
    \/ RunReflector(1, Lists)
    \/ HitlNode(1)
    \/ ProdReturn(1, Lists)

\* one full-path call whose agents add to the running lists of the record
SpecLS == InitLS /\ [][NextLS]_vars

InitRE == InitWith(Reentry)

NextRE ==
    \/ Begin(1, Reentry)
    \/ SearchStep(1, Reentry)
    \/ RunSupervisor(1, Reentry)
    \/ RunTriage(1, Reentry)
    \/ RunGeo(1, Reentry)
    \/ RunVision(1, Reentry)
    \/ RunProtocol(1, Reentry)
    \/ RunReflector(1, Reentry)
    \/ HitlNode(1)
    \/ ProdReturn(1, Reentry)

\* one full-path call whose nodes are entered again with other outputs
SpecRE == InitRE /\ [][NextRE]_vars

----------------------------------------------------------------------------
(* Claims *)

\* C1: a full-path run in which no agent call raises eventually reaches the
\* checkpoint node, whatever the agents return.
C1_ReachesCheckpoint ==
    (pc[1] \in AgentNodes) ~> (obs[1].hitl_runs > 0)

\* C1 witness: a run that looped back from the reflector MaxIterations times
\* and then executed the checkpoint without any agent call raising
C1_Witness ==
    /\ pc[1] = "end"
    /\ st[1].iteration_count = MaxIterations
    /\ ~obs[1].failed

\* C2 (as claimed): in a full-path run the reflector node executes at most
\* max_iterations times before the checkpoint is reached.
C2_ReflectorAtMostMax ==
    Count(st[1].agent_history, "reflector") <= st[1].max_iterations

\* C3: once the checkpoint has run, the record has processing_complete and
\* requires_human_approval true whatever the agents returned, and a call during
\* which some node set requires_human_approval returns a recommendation that has it.
C3_CheckpointForcesApproval ==
    /\ obs[1].hitl_runs > 0 =>
          st[1].processing_complete /\ st[1].requires_human_approval
    /\ pc[1] = "returned" /\ obs[1].hitl_runs > 0 => ret[1].requires_human_approval
    /\ pc[1] = "returned" /\ obs[1].approval_set => ret[1].requires_human_approval

\* C3 witness: triage asked for approval, the reflector's output (quality 30,
\* requires_human_approval false) overwrote the flag, the checkpoint ran and the
\* call returned
C3_Witness ==
    /\ pc[1] = "returned"
    /\ obs[1].approval_set
    /\ obs[1].hitl_runs = 1
    /\ st[1].quality_score = 30

Computing == SearchPcs \cup {"llm", "hitl", "end"} \cup AgentNodes

\* C4: every recommendation process_incident returns with priority P1 or P2 has
\* requires_human_approval true, in test mode, in prod mode and on the fallback
\* path; so has every cached one.
C4_UrgentNeedsApproval ==
    /\ \A c \in {1, 2} :
          pc[c] = "returned" /\ ret[c].priority \in {"P1", "P2"} =>
              ret[c].requires_human_approval
    /\ \A id \in Ids :
          cache[id] # NoResult /\ cache[id].priority \in {"P1", "P2"} =>
              cache[id].requires_human_approval

\* C4 witness: a fast-path call returned a genuine P2 recommendation
C4_Witness ==
    \E c \in {1, 2} :
        /\ pc[c] = "returned"
        /\ ret[c].status = "test_complete"
        /\ ret[c].priority = "P2"

IsFallback(r) ==
    /\ r.status = "error"
    /\ r.priority = "P2"
    /\ r.incident_type = "Unknown_RequiresReview"
    /\ r.recommended_assets = <<[type |-> "ALS_Ambulance", quantity |-> 1]>>
    /\ r.requires_human_approval

BeganBy(c) == nreq' = nreq + 1 /\ req'[c].seq = nreq'

\* the step is the return of the call in slot c after a computation
ReturnedBy(c) == pc[c] \in Computing /\ pc'[c] = "returned"

\* C6: a call with force_reprocess = false for an identifier that has a cached
\* result returns that result unchanged, issues no embedding, search, completion
\* or agent request, and leaves the cache as it is.
C6_CachedReplay ==
    [][\A c \in {1, 2} :
          BeganBy(c) /\ ~req'[c].force_reprocess
                     /\ cache[req'[c].incident_id] # NoResult =>
              /\ pc'[c] = "returned"
              /\ ret'[c] = cache[req'[c].incident_id]
              /\ ext'[c] = NoExt
              /\ cache' = cache]_vars

\* C6 witness: a call returned the cached entry of its identifier
C6_Witness ==
    \E c \in {1, 2} :
        /\ pc[c] = "returned"
        /\ obs[c].hit
        /\ ~req[c].force_reprocess
        /\ ret[c] = cache[req[c].incident_id]

\* C7: a call with force_reprocess = true runs retrieval and the selected mode
\* even when its identifier is cached, and when it succeeds the cache entry of
\* the identifier becomes the result it returns.
C7_ForcedRecompute ==
    [][\A c \in {1, 2} :
          /\ BeganBy(c) /\ req'[c].force_reprocess =>
                pc'[c] \in Computing /\ ext'[c].embed = 1
          /\ ReturnedBy(c) /\ req[c].force_reprocess /\ ~obs'[c].failed =>
                /\ cache'[req[c].incident_id] = ret'[c]
                /\ ext'[c].embed = 1
                /\ ext'[c].llm = 1 \/ ext'[c].agent >= 1]_vars

\* C7 witness: a forced call for a cached identifier has succeeded and the entry
\* is its result
C7_Witness ==
    \E c \in {1, 2} :
        /\ pc[c] = "returned"
        /\ req[c].force_reprocess
        /\ obs[c].cached_at_start
        /\ obs[c].stored /\ ~obs[c].failed
        /\ cache[req[c].incident_id] = ret[c]

\* C8 (as claimed): every result process_incident computes and returns, the
\* fallback included, is in the cache under its identifier when the call returns.
C8_ReturnedIsStored ==
    [][\A c \in {1, 2} :
          ReturnedBy(c) => cache'[req[c].incident_id] = ret'[c]]_vars

\* C9 (as claimed): two overlapping calls with the same identifier and
\* force_reprocess = false never both compute a fresh result.
C9_SingleComputation ==
    \A c \in {1, 2}, d \in {1, 2} :
        /\ c # d
        /\ pc[c] \in Computing /\ pc[d] \in Computing
        /\ ~req[c].force_reprocess /\ ~req[d].force_reprocess
        => req[c].incident_id # req[d].incident_id

Complete(r) == {"mode", "processing_time_ms"} \subseteq DOMAIN r

\* C10: the cache never holds a partially written entry (every entry carries its
\* mode and processing_time_ms), and a call that stores leaves its own result as
\* the entry of its identifier and no other entry changed: last write wins.
C10_CompleteEntries ==
    [][/\ \A id \in Ids : cache'[id] # NoResult => Complete(cache'[id])
       /\ \A c \in {1, 2} :
             obs'[c].stored /\ ~obs[c].stored =>
                 /\ cache'[req[c].incident_id] = ret'[c]
                 /\ \A id \in Ids \ {req[c].incident_id} : cache'[id] = cache[id]]_vars

\* C10 witness: two calls for one identifier have both stored, and the entry is
\* the result of the one that stored last, not of the other
C10_Witness ==
    /\ pc[1] = "returned" /\ pc[2] = "returned"
    /\ obs[1].stored /\ obs[2].stored
    /\ req[1].incident_id = req[2].incident_id
    /\ req[1].force_reprocess /\ req[2].force_reprocess
    /\ cache[req[1].incident_id] = ret[2]
    /\ ret[1] # ret[2]

----------------------------------------------------------------------------
(* Retrieval *)

\* the call has left _retrieve_context
PastRetrieval(c) == pc[c] \in {"llm", "hitl", "end", "returned"} \cup AgentNodes

\* the embedding raised, or every search that was issued raised
RetrievalFailed(c) ==
    ~obs[c].hit /\ (obs[c].embed_failed \/ obs[c].search_failed = ext[c].search)

Genuine(r) == r.status \in {"test_complete", "workflow_complete"}

\* C11: when the embedding raises or every search raises, the context has its
\* four lists empty, the selected mode still runs on it, and the call returns a
\* genuine recommendation unless the mode itself failed.
C11_DegradedRetrieval ==
    PastRetrieval(1) /\ RetrievalFailed(1) =>
        /\ ctx[1] = EmptyContext
        /\ mode = "prod" /\ pc[1] # "returned" =>
              /\ st[1].retrieved_docs = <<>> /\ st[1].retrieved_sops = <<>>
              /\ st[1].retrieved_landmarks = <<>> /\ st[1].retrieved_images = <<>>
        /\ pc[1] = "returned" =>
              /\ ext[1].llm + ext[1].agent >= 1
              /\ ~obs[1].failed => Genuine(ret[1])
              /\ IsFallback(ret[1]) => obs[1].failed

\* C11 witness: the embedding raised and the call returned a genuine recommendation
C11_Witness ==
    /\ pc[1] = "returned"
    /\ obs[1].embed_failed
    /\ ext[1].search = 0
    /\ Genuine(ret[1])

\* searches _retrieve_context issues for the arguments r once the embedding succeeded
ExpectedSearches(r) ==
    2 + (IF r.has_location THEN 0 ELSE 1) + (IF r.has_images THEN 1 ELSE 0)

\* C12: a search that raises leaves its collection's list empty and the other
\* lists as they were, and the searches after it are issued all the same: once
\* retrieval is over, every search the arguments call for has been issued.
C12_SearchesIndependent ==
    [][pc[1] \in SearchPcs /\ pc'[1] # pc[1] =>
          /\ obs'[1].search_failed > obs[1].search_failed =>
                /\ ctx'[1][CollectionOf(pc[1])] = <<>>
                /\ \A k \in DOMAIN ctx[1] \ {CollectionOf(pc[1])} :
                       ctx'[1][k] = ctx[1][k]
          /\ pc'[1] \notin SearchPcs => ext'[1].search = ExpectedSearches(req[1])]_vars

\* C12 witness: four searches were issued, the second raised, the first and the
\* last two kept their hits
C12_Witness ==
    /\ PastRetrieval(1)
    /\ ext[1].search = 4
    /\ obs[1].search_failed = 1
    /\ ctx[1] = [docs |-> <<"hit">>, sops |-> <<>>,
                 landmarks |-> <<"hit">>, images |-> <<"hit">>]

----------------------------------------------------------------------------
(* The graph *)

\* C13: in a full-path run the checkpoint node executes at most once;
\* final_recommendation is written exactly when the checkpoint has executed; a
\* run that ended or returned without an exception has executed it once; and
\* after the checkpoint no agent call is made and no node appends to agent_history.
C13_CheckpointOnceAndLast ==
    [][/\ obs'[1].hitl_runs <= 1
       /\ st'[1].final_recommendation.written <=> obs'[1].hitl_runs = 1
       /\ st'[1].final_recommendation.written =>
             st'[1].final_recommendation = FinalRecommendation(st'[1])
       /\ pc'[1] \in {"end", "returned"} /\ ~obs'[1].failed => obs'[1].hitl_runs = 1
       /\ obs[1].hitl_runs >= 1 =>
             /\ ext'[1].agent = ext[1].agent
             /\ st'[1].agent_history = st[1].agent_history
             /\ pc'[1] \notin AgentNodes \cup {"hitl"}]_vars

\* C13 witness: a run that looped back from the reflector has returned without an
\* exception after one execution of the checkpoint
C13_Witness ==
    /\ pc[1] = "returned"
    /\ ~obs[1].failed
    /\ obs[1].hitl_runs = 1
    /\ st[1].iteration_count >= 1
    /\ ret[1].final_recommendation.written

\* C14 (as claimed): when the checkpoint has produced the final recommendation,
\* 'triage' is in agent_history.
C14_TriageBeforeCheckpoint ==
    st[1].final_recommendation.written => Count(st[1].agent_history, "triage") >= 1

\* C15 (as claimed): no step of a run takes requires_human_approval from true to
\* false.
C15_ApprovalMonotonic ==
    [][st[1].requires_human_approval => st'[1].requires_human_approval]_vars

\* C16: iteration_count stays between 0 and max_iterations, and no step of a run
\* decreases it.
C16_CounterBounded ==
    [][/\ 0 <= st'[1].iteration_count
       /\ st'[1].iteration_count <= st'[1].max_iterations
       /\ st'[1].max_iterations = MaxIterations
       /\ pc[1] # "idle" => st'[1].iteration_count >= st[1].iteration_count]_vars

\* C16 witness: the counter has reached max_iterations and the reflector has sent
\* the run to the checkpoint
C16_Witness ==
    /\ pc[1] = "hitl"
    /\ st[1].iteration_count = MaxIterations
    /\ st[1].quality_score = 30
    /\ st[1].loop_back_to = "triage"

\* C17 (as claimed): with max_iterations = 5 and a reflector returning quality
\* 0.3 and loop-back target triage on every pass, the run ends at the checkpoint
\* and agent_history then holds exactly 5 triage entries.
C17_FiveTriageEntries ==
    pc[1] \in {"end", "returned"} =>
        /\ obs[1].hitl_runs = 1
        /\ Count(st[1].agent_history, "triage") = 5

AllowedPriorities == {"P1", "P2", "P3", "P4", "P5"}

----------------------------------------------------------------------------
(* Shape of the results *)

\* C19: a returned result has status error exactly when it has an error field
\* and exactly when it is the fallback, which a call that computed returns
\* exactly when an exception reached a handler; every other result has the
\* status of its mode, test_complete or workflow_complete, and no error field.
C19_StatusTellsFallback ==
    \A c \in {1, 2} :
        pc[c] = "returned" =>
            /\ ret[c].status = "error" <=> "error" \in DOMAIN ret[c]
            /\ ret[c].status = "error" <=> IsFallback(ret[c])
            /\ ~obs[c].hit => (obs[c].failed <=> ret[c].status = "error")
            /\ ret[c].status # "error" =>
                  /\ ret[c].status =
                        (IF mode = "test" THEN "test_complete" ELSE "workflow_complete")
                  /\ "error" \notin DOMAIN ret[c]

\* C19 witness: on one orchestrator a call has returned the fallback and another
\* a genuine result
C19_Witness ==
    /\ pc[1] = "returned" /\ pc[2] = "returned"
    /\ ret[1].status = "error" /\ "error" \in DOMAIN ret[1]
    /\ Genuine(ret[2]) /\ "error" \notin DOMAIN ret[2]

\* the fields of a successful fast-path result as process_incident returns it
FastPathFields ==
    DOMAIN WithMetadata(TestResult("inc-1", Completion("P1")), 1, "test")

\* C20 (as claimed): a successful result has the same set of fields whether the
\* fast path or the full path produced it.
C20_SameFields ==
    \A c \in {1, 2} :
        pc[c] = "returned" /\ Genuine(ret[c]) => DOMAIN ret[c] = FastPathFields

----------------------------------------------------------------------------
(* Cache maintenance *)

\* the step is a clear_cache call: no process_incident call moves
ClearStep == pc' = pc /\ nreq' = nreq

\* C21 (as claimed): clear_cache with an identifier, whatever its value, removes
\* the entry of that identifier and changes no other entry; clear_cache without
\* identifier removes every entry; a later call for an identifier without entry
\* recomputes.
C21_ClearExactlyOne ==
    [][/\ ClearStep /\ cleared' \in Keys =>
             /\ cache'[cleared'] = NoResult
             /\ \A k \in Keys \ {cleared'} : cache'[k] = cache[k]
       /\ ClearStep /\ cleared' = None => \A k \in Keys : cache'[k] = NoResult
       /\ BeganBy(1) /\ cache[req'[1].incident_id] = NoResult =>
             pc'[1] \in Computing /\ ext'[1].embed = 1]_vars

----------------------------------------------------------------------------
(* Routing *)

\* C22: agent_history never holds more than 5 * (max_iterations + 1) names: at
\* most five agent nodes per reflection pass, at most max_iterations loop-backs.
C22_HistoryBounded ==
    Len(st[1].agent_history) <= 5 * (st[1].max_iterations + 1)

\* C22 witness: six passes of five nodes each have reached the checkpoint
C22_Witness ==
    /\ pc[1] = "hitl"
    /\ Len(st[1].agent_history) = 5 * (MaxIterations + 1)
    /\ Count(st[1].agent_history, "reflector") = MaxIterations + 1

\* the step is node n returning and its edge being followed
NodeStep(n) == pc[1] = n /\ pc'[1] # "returned"

\* the node executed last
LastNode(s) == IF s.agent_history = <<>> THEN None
               ELSE s.agent_history[Len(s.agent_history)]

\* C23: after the supervisor the next node is the checkpoint when the record has
\* intent unclear or requires_human_approval set, else geo for location_unclear,
\* vision for visual_needed, triage for any other intent: a function of the record.
C23_SupervisorRouting ==
    [][NodeStep("supervisor") =>
          pc'[1] = (IF st'[1].intent = "unclear" \/ st'[1].requires_human_approval
                      THEN "hitl"
                    ELSE IF st'[1].intent = "location_unclear" THEN "geo"
                    ELSE IF st'[1].intent = "visual_needed" THEN "vision"
                    ELSE "triage")]_vars

\* C23 witness: the supervisor, with a location_unclear intent and
\* requires_human_approval set, has sent the run to the checkpoint
C23_Witness ==
    /\ pc[1] = "hitl"
    /\ st[1].agent_history = <<"supervisor">>
    /\ st[1].intent = "location_unclear"
    /\ st[1].requires_human_approval

\* C24: after geo and after vision the next node is the checkpoint when the
\* node's output set requires_more_info, and triage otherwise.
C24_GeoVisionRouting ==
    [][NodeStep("geo") \/ NodeStep("vision") =>
          pc'[1] = (IF st'[1].requires_more_info THEN "hitl" ELSE "triage")]_vars

\* C24 witness: the vision node asked for more information and the run is at
\* the checkpoint
C24_Witness ==
    /\ pc[1] = "hitl"
    /\ LastNode(st[1]) = "vision"
    /\ st[1].requires_more_info

\* C25: after the reflector the next node is the checkpoint, and iteration_count
\* is unchanged, whenever iteration_count >= max_iterations, or quality_score >=
\* 0.7, or the recorded loop-back target is not one of supervisor, triage, geo.
C25_ReflectorToCheckpoint ==
    [][NodeStep("reflector") /\
         (\/ st[1].iteration_count >= st[1].max_iterations
          \/ st'[1].quality_score >= QualityThreshold
          \/ st'[1].loop_back_to \notin LoopTargets) =>
             /\ pc'[1] = "hitl"
             /\ st'[1].iteration_count = st[1].iteration_count]_vars

\* C25 witness: at the ceiling, with quality 0.3 and loop-back target triage
\* recorded, the run is at the checkpoint
C25_Witness ==
    /\ pc[1] = "hitl"
    /\ LastNode(st[1]) = "reflector"
    /\ st[1].iteration_count = st[1].max_iterations
    /\ st[1].quality_score = 30
    /\ st[1].loop_back_to = "triage"

C27_OnlyGraphEdges ==
    [][/\ pc[1] \notin GraphNodes /\ pc'[1] \in GraphNodes => pc'[1] = "supervisor"
       /\ pc[1] \in GraphNodes /\ pc'[1] # pc[1] /\ pc'[1] # "returned" =>
             <<pc[1], pc'[1]>> \in Edges]_vars

\* C27 witness: the run went round the loop to the supervisor and from there to
\* vision
C27_Witness ==
    /\ pc[1] = "vision"
    /\ LastNode(st[1]) = "supervisor"
    /\ Count(st[1].agent_history, "reflector") = 1

\* C28: when an agent call raises, process_incident returns the fallback at
\* once; the record is left as the nodes before had written it, without final
\* recommendation; and afterwards no agent is called and no node executes.
C28_RaiseEndsRun ==
    [][/\ obs'[1].failed /\ ~obs[1].failed =>
             /\ pc'[1] = "returned"
             /\ IsFallback(ret'[1])
             /\ st'[1] = st[1]
             /\ ~st'[1].final_recommendation.written
             /\ obs'[1].hitl_runs = 0
       /\ obs[1].failed =>
             /\ ext'[1].agent = ext[1].agent
             /\ st'[1] = st[1]
             /\ pc'[1] = pc[1]]_vars

\* C28 witness: the fourth agent call of a run raised and the call has returned
C28_Witness ==
    /\ pc[1] = "returned"
    /\ obs[1].failed
    /\ ext[1].agent = 4
    /\ Len(st[1].agent_history) = 3
    /\ ret[1].status = "error"

----------------------------------------------------------------------------
(* Running lists of the record *)

IsPrefix(a, b) == Len(a) <= Len(b) /\ SubSeq(b, 1, Len(a)) = a

\* C29: in every step of a run the previous agent_history and grounded_claims
\* are prefixes of the new ones, and an agent node that executes appends its own
\* name, and nothing else, to agent_history.
C29_HistoryAndClaimsAppendOnly ==
    [][pc[1] \in GraphNodes =>
          /\ IsPrefix(st[1].agent_history, st'[1].agent_history)
          /\ IsPrefix(st[1].grounded_claims, st'[1].grounded_claims)
          /\ pc[1] \in AgentNodes /\ pc'[1] # "returned" =>
                st'[1].agent_history = Append(st[1].agent_history, pc[1])
          /\ pc[1] = "hitl" => st'[1].agent_history = st[1].agent_history]_vars

\* C29 witness: on the second pass triage has added its claim after those of
\* the first pass
C29_Witness ==
    /\ pc[1] = "protocol"
    /\ st[1].iteration_count = 1
    /\ st[1].grounded_claims = <<"claim-t", "claim-p", "claim-t">>

\* C30 (as claimed): in every step of a run the previous ambiguities are a
\* prefix of the new ones.
C30_AmbiguitiesAppendOnly ==
    [][pc[1] \in GraphNodes =>
          IsPrefix(st[1].ambiguities, st'[1].ambiguities)]_vars

\* C31 (as claimed): in every step of a run the previous recommended_assets are
\* a prefix of the new ones, so the assets of an earlier triage pass are still
\* in the list after a later one.
C31_AssetsAppendOnly ==
    [][pc[1] \in GraphNodes =>
          IsPrefix(st[1].recommended_assets, st'[1].recommended_assets)]_vars

\* C35: once the reflector has run, the quality score of the final
\* recommendation, and of the result returned, is the score of the latest
\* reflector result (0.7 when that result carries none).
C35_LastScore ==
    /\ st[1].final_recommendation.written
    /\ Count(st[1].agent_history, "reflector") >= 1
    => LET last == IF obs[1].last_score = NoScore THEN DefaultQuality
                   ELSE obs[1].last_score
       IN  /\ st[1].final_recommendation.quality_score = last
           /\ pc[1] = "returned" => ret[1].quality_score = last

\* C35 witness: after two passes that scored below 0.7 the third scored 0.9,
\* which is the score of the recommendation returned
C35_Witness ==
    /\ pc[1] = "returned"
    /\ st[1].iteration_count = 2
    /\ Count(st[1].agent_history, "reflector") = 3
    /\ ret[1].final_recommendation.quality_score = 90

\* the fields of the record a node writes from its agent's result
Owns(n) ==
    CASE n = "supervisor" -> {"intent"}
      [] n = "triage" -> {"priority", "incident_type", "recommended_assets"}
      [] n = "geo" -> {"resolved_location", "address"}
      [] n = "protocol" -> {"recommended_sops", "critical_instructions"}
      [] n = "vision" -> {"visual_analysis"}
      [] n = "reflector" -> {"quality_score", "gaps_detected"}
      [] OTHER -> {}

OutputFields == UNION {Owns(n) : n \in AgentNodes}

\* C36: a node step, its routing included, changes no output field of another
\* node, so the outputs of nodes not executed again reach the checkpoint as they
\* were; a node that executes again leaves its own latest result in the record.
C36_OutputsKeptAcrossLoops ==
    [][pc[1] \in GraphNodes /\ pc'[1] # "returned" =>
          /\ \A f \in OutputFields \ Owns(pc[1]) : st'[1][f] = st[1][f]
          /\ pc[1] = "triage" =>
                \E o \in Reentry.triage :
                    /\ st'[1].priority = o.priority
                    /\ st'[1].recommended_assets = o.recommended_assets
          /\ pc[1] = "geo" =>
                \E o \in Reentry.geo :
                    /\ st'[1].resolved_location = o.resolved_location
                    /\ st'[1].address = o.address]_vars

\* C36 witness: geo ran once, triage twice; at the checkpoint the location is
\* geo's and the priority and assets are those of the second triage pass
C36_Witness ==
    /\ pc[1] = "hitl"
    /\ st[1].agent_history = <<"supervisor", "geo", "triage", "protocol", "reflector",
                                "triage", "protocol", "reflector">>
    /\ st[1].resolved_location = "loc-B"
    /\ st[1].priority = "P2"
    /\ st[1].recommended_assets = <<[type |-> "Fire_Engine", quantity |-> 2]>>

\* the retrieved-evidence lists of the record, and the list of the context each
\* is taken from
RetrievedFields ==
    {"retrieved_docs", "retrieved_sops", "retrieved_landmarks", "retrieved_images"}

ContextKey(f) ==
    CASE f = "retrieved_docs" -> "docs"
      [] f = "retrieved_sops" -> "sops"
      [] f = "retrieved_landmarks" -> "landmarks"
      [] f = "retrieved_images" -> "images"

\* C32: no node step and no routing step changes a retrieved-evidence list:
\* throughout the graph and in its final state each list is the one retrieval
\* returned.
C32_EvidenceReadOnly ==
    [][/\ pc[1] \in GraphNodes =>
             \A f \in RetrievedFields : st'[1][f] = st[1][f]
       /\ pc'[1] \in GraphNodes \cup {"end"} =>
             \A f \in RetrievedFields : st'[1][f] = ctx'[1][ContextKey(f)]]_vars

\* C32 witness: a run with four non-empty lists has looped back twice and ended
C32_Witness ==
    /\ pc[1] = "end"
    /\ st[1].iteration_count = 2
    /\ \A f \in RetrievedFields : st[1][f] = <<"hit">>

\* _build_previous_outputs: the agents that have an entry in the map handed to
\* an agent, each keyed on the truthiness of one field of the record
PreviousOutputs(s) ==
    {n \in {"supervisor", "triage", "geo", "protocol", "vision"} :
        CASE n = "supervisor" -> Truthy(s.intent)
          [] n = "triage" -> Truthy(s.priority)
          [] n = "geo" -> Truthy(s.resolved_location)
          [] n = "protocol" -> s.recommended_sops # <<>>
          [] n = "vision" -> Truthy(s.visual_analysis)}

\* C37: the map of prior outputs handed to an agent has an entry for an agent
\* only if that agent's name is in agent_history.
C37_OnlyExecutedAgents ==
    pc[1] \in AgentNodes =>
        \A n \in PreviousOutputs(st[1]) : Count(st[1].agent_history, n) >= 1

\* the collections _retrieve_context searches for the arguments r (lines 213-254)
ExpectedCollections(r) ==
    {"docs", "sops"} \cup (IF r.has_location THEN {} ELSE {"landmarks"})
                     \cup (IF r.has_images THEN {"images"} ELSE {})

\* C33 as stated: once retrieval is over the text was embedded once, the
\* incident-memory and protocol searches were issued, the landmark search was
\* issued exactly when no location was supplied and the visual-evidence search
\* exactly when image vectors are present.
C33_SearchesAlways ==
    PastRetrieval(1) /\ ~obs[1].hit =>
        /\ ext[1].embed = 1
        /\ obs[1].searched = ExpectedCollections(req[1])
        /\ ext[1].search = Cardinality(obs[1].searched)

\* C33: once retrieval is over the text was embedded once; when the embedding
\* returned, each of the collections the arguments call for was searched once
\* and no other (incident memory and protocols always, landmarks exactly when no
\* location was supplied, visual evidence exactly when image vectors are
\* present); when the embedding raised, no search was issued.
C33_SearchesWhenEmbedded ==
    PastRetrieval(1) /\ ~obs[1].hit =>
        /\ ext[1].embed = 1
        /\ obs[1].searched =
              IF obs[1].embed_failed THEN {} ELSE ExpectedCollections(req[1])
        /\ ext[1].search = Cardinality(obs[1].searched)

\* C33 witness: a call with a location and image vectors finished retrieval
\* having searched incident memory, protocols and visual evidence only
C33_Witness ==
    /\ PastRetrieval(1)
    /\ req[1].has_location /\ req[1].has_images
    /\ ext[1].embed = 1
    /\ obs[1].searched = {"docs", "sops", "images"}
    /\ ext[1].search = 3

\* C34: retrieval runs before the mode (no completion and no agent call is made
\* before it is over); in test mode the call makes exactly one completion
\* request, rendered from the context retrieval returned, and executes no node;
\* in prod mode it makes no completion request and runs the workflow on a record
\* holding the lists retrieval returned.
C34_ModeConsumesContext ==
    /\ ~PastRetrieval(1) =>
          ext[1].llm = 0 /\ ext[1].agent = 0 /\ obs[1].hitl_runs = 0
    /\ PastRetrieval(1) /\ ~obs[1].hit => ext[1].embed = 1
    /\ mode = "test" =>
          /\ ext[1].agent = 0 /\ obs[1].hitl_runs = 0 /\ st[1] = NoState
          /\ pc[1] = "returned" /\ ~obs[1].hit =>
                /\ ext[1].llm = 1
                /\ obs[1].prompt = FormatContextForPrompt(ctx[1])
    /\ mode = "prod" =>
          /\ ext[1].llm = 0
          /\ pc[1] \in GraphNodes \cup {"end"} =>
                \A f \in RetrievedFields : st[1][f] = ctx[1][ContextKey(f)]
          /\ pc[1] = "returned" /\ ~obs[1].hit => ext[1].agent >= 1

\* C34 witness: a test-mode call returned after one completion request whose
\* prompt rendered the protocols and incidents retrieval had found
C34_Witness ==
    /\ mode = "test"
    /\ pc[1] = "returned"
    /\ ext[1].llm = 1 /\ ext[1].agent = 0
    /\ ctx[1].sops = <<"hit">> /\ ctx[1].docs = <<"hit">>
    /\ obs[1].prompt = <<[head |-> "RELEVANT SOPs", items |-> <<"hit">>],
                         [head |-> "SIMILAR INCIDENTS", items |-> <<"hit">>]>>

\* the step is taken by the call in slot c
Moves(c) == pc'[c] # pc[c] \/ BeganBy(c)

\* C38: runs share no incident record. A step leaves the record, the context,
\* the arguments and the result of every call that did not take it unchanged; a
\* node step of a run executes the one node the run is at, on the run's own
\* record; the result a run returns is built from its own record, and the cache
\* entries of other identifiers stay as they were.
C38_RunsIsolated ==
    [][\A c \in {1, 2} :
          /\ ~Moves(c) =>
                /\ st'[c] = st[c] /\ ctx'[c] = ctx[c] /\ req'[c] = req[c]
                /\ ret'[c] = ret[c] /\ ext'[c] = ext[c]
          /\ Moves(c) =>
                /\ \A k \in Keys \ {req'[c].incident_id} : cache'[k] = cache[k]
                /\ pc[c] \in AgentNodes /\ pc'[c] # "returned" =>
                      /\ st'[c].agent_history = Append(st[c].agent_history, pc[c])
                      /\ st'[c].incident_id = req[c].incident_id
                /\ pc[c] = "end" =>
                      \E elapsed \in Narrow.elapsed :
                          ret'[c] = WithMetadata(ProdResult(req[c].incident_id, st[c]),
                                                 elapsed, mode)]_vars

\* C38 witness: two full-path runs for different identifiers are inside the
\* graph at the same time, each with its own record
C38_Witness ==
    /\ pc[1] = "protocol" /\ pc[2] = "reflector"
    /\ req[1].incident_id # req[2].incident_id
    /\ st[1].incident_id = req[1].incident_id
    /\ st[2].incident_id = req[2].incident_id
    /\ st[1].priority = "P1" /\ st[2].priority = "P4"
    /\ st[1].agent_history = <<"supervisor", "triage">>
    /\ st[2].agent_history = <<"supervisor", "triage", "protocol">>

\* the call in slot c was forced for an identifier that had a cached result
ForcedOverCached(c) == req[c].force_reprocess /\ obs[c].cached_at_start

\* C39 as stated: when a forced call for a cached identifier returns after its
\* retrieval failed or after the full path raised, the cache is as it was and
\* the call returns the fallback.
C39_FailedForcedKeepsCache ==
    [][ReturnedBy(1) /\ ForcedOverCached(1)
                     /\ (obs'[1].failed \/ RetrievalFailed(1)) =>
          /\ cache' = cache
          /\ IsFallback(ret'[1])]_vars

\* C39: when a forced full-path call for a cached identifier returns after an
\* agent raised, the cache is as it was and the call returns the fallback; when
\* it returns without an agent having raised, failed retrieval or not, it
\* returns a genuine result that replaces the cached one. The cache never holds
\* the fallback, so no later caller is given it.
C39_FailedFullPathKeepsCache ==
    [][/\ ReturnedBy(1) /\ ForcedOverCached(1) =>
             IF obs'[1].failed
             THEN cache' = cache /\ IsFallback(ret'[1])
             ELSE Genuine(ret'[1]) /\ cache' = Store(req[1].incident_id, ret'[1])
       /\ \A id \in Ids : cache'[id] # NoResult => Genuine(cache'[id])
       /\ BeganBy(1) /\ obs'[1].hit => Genuine(ret'[1])]_vars

\* C39 witness: a forced call for a cached identifier returned the fallback and
\* the cache still holds the earlier genuine result
C39_Witness ==
    /\ pc[1] = "returned"
    /\ ForcedOverCached(1)
    /\ obs[1].failed
    /\ IsFallback(ret[1])
    /\ Genuine(cache[req[1].incident_id])
    /\ nreq = 2

====
